---- MODULE Spec2Model ----
(***************************************************************************)
(* easy-ws: SimpleWebSocket (src/src/lib.rs).                              *)
(*                                                                         *)
(* One handle (SimpleWebSocket) used by one caller, and the background     *)
(* threads that connect() spawns.  Each caller method is one atomic        *)
(* action; each background thread advances through the closure of          *)
(* lib.rs:89-96: ws::connect(endpoint, factory) runs the websocket event   *)
(* loop and, when it returns Err, the closure reads on_error_fn and calls  *)
(* it.  ws::connect itself is a library call: when it opens, delivers a    *)
(* frame, or returns Ok/Err is chosen nondeterministically.                *)
(*                                                                         *)
(* The closure uses self from another thread, which the borrow checker     *)
(* does not accept as written; each statement is modelled by what it says: *)
(* the read of on_error_fn and the start of the handler are one step of    *)
(* the thread, the handler's return is another.                            *)
(***************************************************************************)
EXTENDS Naturals, Integers, Sequences, FiniteSets, TLC

\* ---- bounds of the model ------------------------------------------------
MaxThreads == 2      \* connect() calls explored (threads ever spawned)
MaxChan    == 2      \* commands ever put into the mpsc channel

\* ---- values -------------------------------------------------------------
None     == "None"
Handlers == {"f"}                      \* closures a caller may register
Msgs     == {"ping"}                   \* texts passed to send()

\* enum EasyWsConnectionState
EasyWsConnectionState == {"Connecting", "Handshake", "Connected", "Disconnected"}

\* enum EasyWsCommand
Disconnect == [cmd |-> "Disconnect", text |-> ""]
Send(m)    == [cmd |-> "Send", text |-> m]
EasyWsCommand == {Disconnect} \cup {Send(m) : m \in Msgs}

\* enum EasyWsError has the single variant Unknown; EasyWsResult = Result<(), EasyWsError>
EasyWsError  == {"Unknown"}
EasyWsResult == {"Ok"} \cup EasyWsError

\* SimpleWebSocketBuilder::new defaults, and a value set through with_timeout
DefaultTimeout  == 10000
DefaultInterval == 1000
Endpoint        == "ws://x"

VARIABLES
  state,      \* SimpleWebSocket.state
  chan,       \* commands sent through _tx and not yet received from _rx
  config,     \* SimpleWebSocket.timeout / interval / endpoint
  slots,      \* on_connect_fn, on_disconnect_fn, on_message_fn, on_error_fn
  threads,    \* the threads spawned by connect(), in spawn order
  calls,      \* how often each kind of user callback has been invoked
  wire,       \* what the wrapper has asked the transport (WsClient.out) to do
  last,       \* the caller's most recent connect/disconnect/send and its result
  dropped     \* the owner has dropped the handle

vars == <<state, chan, config, slots, threads, calls, wire, last, dropped>>

Kinds == {"connect", "disconnect", "message", "error"}

\* ---- SimpleWebSocketBuilder --------------------------------------------
\* SimpleWebSocketBuilder::new(endpoint)
SimpleWebSocketBuilder_new(endpoint) ==
  [timeout |-> DefaultTimeout, interval |-> DefaultInterval, endpoint |-> endpoint]

with_timeout(b, ms)  == [b EXCEPT !.timeout = ms]
with_interval(b, ms) == [b EXCEPT !.interval = ms]

\* the builders a caller may have set up before build()
Builders ==
  { SimpleWebSocketBuilder_new(Endpoint),
    with_interval(with_timeout(SimpleWebSocketBuilder_new(Endpoint), 500), 250) }

\* ---- helpers ------------------------------------------------------------
\* impl From<SendError<EasyWsCommand>> for EasyWsError
From_SendError == "Unknown"

\* (a handle that has given its Receiver away, or lost it)
RxGone == FALSE

\* The handle holds the Receiver _rx next to the Sender _tx for as long as it
\* exists, and nothing takes it out.
RxHeld == TRUE

\* Sender::send(c)? on a channel whose Receiver is held or gone: it fails
\* only once the Receiver is gone, and the ? operator turns that SendError
\* into EasyWsError::Unknown.
channel_send(held, q, c) ==
  IF held THEN [res |-> "Ok", chan |-> Append(q, c)]
          ELSE [res |-> From_SendError, chan |-> q]

\* self._tx.send(c)?
tx_send(q, c) == channel_send(RxHeld, q, c)

\* (a rendezvous channel: the sender waits until the queue has been taken)
tx_ready_rendezvous(q) == q = << >>

\* let (tx, rx) = channel(): the asynchronous, unbounded mpsc channel, whose
\* Sender::send never waits for the receiver, whatever is queued.
tx_ready(q) == TRUE

Live(t)  == t.pc # "done"
LiveSet  == {i \in DOMAIN threads : Live(threads[i])}
AnyLive  == LiveSet # {}
OpenSet  == {i \in DOMAIN threads : threads[i].pc = "open"}

\* the caller's most recent connect/disconnect/send and the EasyWsResult it got
Call(op, res) == [op |-> op, res |-> res]

\* ---- SimpleWebSocket::new / Builder::build ------------------------------
Init ==
  /\ state = "Disconnected"
  /\ chan = << >>
  /\ \E b \in Builders : config = b
  /\ slots = [k \in Kinds |-> None]
  /\ threads = << >>
  /\ calls = [k \in Kinds |-> 0]
  /\ wire = << >>
  /\ last = Call("build", "Ok")
  /\ dropped = FALSE

\* ---- caller methods -----------------------------------------------------
\* the thread connect() spawns: it holds the cloned endpoint and starts
\* inside ws::connect
spawned_thread(endpoint) ==
  [pc |-> "connecting", endpoint |-> endpoint, opened |-> FALSE, errs |-> 0,
   cb |-> None]

\* (a connect() that records that it has begun connecting)
connect_state_connecting(s) == "Connecting"

\* the state field after connect(): if self.state != Disconnected { () },
\* and no assignment anywhere in the method
connect_state(s) == s

\* connect(): the state test has an empty body, so every call clones the
\* endpoint, spawns a thread and returns Ok; state is not assigned.
connect ==
  /\ ~dropped
  /\ Len(threads) < MaxThreads
  /\ state' = connect_state(state)
  /\ threads' = Append(threads, spawned_thread(config.endpoint))
  /\ last' = Call("connect", "Ok")
  /\ UNCHANGED <<chan, config, slots, calls, wire, dropped>>

\* disconnect(): the state test has an empty body, so every call sends
\* Disconnect through _tx and returns Ok.
disconnect ==
  /\ ~dropped
  /\ Len(chan) < MaxChan
  /\ tx_ready(chan)
  /\ LET r == tx_send(chan, Disconnect) IN
       /\ chan' = r.chan
       /\ last' = Call("disconnect", r.res)
  /\ UNCHANGED <<state, config, slots, threads, calls, wire, dropped>>

\* send(message): no state test at all; sends Send(msg) through _tx.
send(m) ==
  /\ ~dropped
  /\ Len(chan) < MaxChan
  /\ tx_ready(chan)
  /\ LET r == tx_send(chan, Send(m)) IN
       /\ chan' = r.chan
       /\ last' = Call("send", r.res)
  /\ UNCHANGED <<state, config, slots, threads, calls, wire, dropped>>

\* (an assignment that lands in every slot)
set_slot_all(k, h) == [j \in Kinds |-> h]

\* on_connect / on_disconnect / on_message / on_error (callback):
\* self.on_X_fn = Some(Box::new(callback))
set_slot(k, h) == [slots EXCEPT ![k] = h]

register(k, h) ==
  /\ ~dropped
  /\ slots' = set_slot(k, h)
  /\ UNCHANGED <<state, chan, config, threads, calls, wire, last, dropped>>

\* The owner drops the handle.  SimpleWebSocket has no Drop impl: its fields
\* go (both channel ends with what is queued, the boxed closures), nothing is
\* sent to the threads, and their JoinHandles were discarded at spawn, so
\* they run on detached.
drop_handle ==
  /\ ~dropped
  /\ dropped' = TRUE
  /\ chan' = << >>
  /\ slots' = [k \in Kinds |-> None]
  /\ UNCHANGED <<state, config, threads, calls, wire, last>>

on_connect(h)    == register("connect", h)
on_disconnect(h) == register("disconnect", h)
on_message(h)    == register("message", h)
on_error(h)      == register("error", h)

\* ---- the spawned closure (lib.rs:89-96) ---------------------------------
\* ws::connect opens the connection and builds the handler through the
\* factory |out| WsClient { out }.  Nothing of the handle is touched.
ws_open(i) ==
  /\ threads[i].pc = "connecting"
  /\ threads' = [threads EXCEPT ![i].pc = "open", ![i].opened = TRUE]
  /\ UNCHANGED <<state, chan, config, slots, calls, wire, last, dropped>>

\* WsClient::on_message(msg) returns Ok(()) and does nothing else.
WsClient_on_message(i) ==
  /\ threads[i].pc = "open"
  /\ UNCHANGED vars

\* ws::connect returns Ok(()): the event loop ended; the closure ends too.
ws_closed(i) ==
  /\ threads[i].pc = "open"
  /\ threads' = [threads EXCEPT ![i].pc = "done"]
  /\ UNCHANGED <<state, chan, config, slots, calls, wire, last, dropped>>

\* ws::connect returns Err(error), before or after the connection opened.
ws_failed(i) ==
  /\ threads[i].pc \in {"connecting", "open"}
  /\ threads' = [threads EXCEPT ![i].pc = "failed"]
  /\ UNCHANGED <<state, chan, config, slots, calls, wire, last, dropped>>

\* (a closure that drops the error without looking at the slot)
error_invocations_never(s) == 0

\* (a closure that calls the slot without testing it for Some)
error_invocations_unchecked(s) == 1

\* if let Some(func) = self.on_error_fn { (func)(error.description()); }
\* number of on_error invocations this makes for slot value s
error_invocations(s) == IF s # None THEN 1 ELSE 0

\* what the thread may find in self.on_error_fn: the slot, or, once the
\* handle has been dropped under it, whatever the freed memory holds
on_error_fn_read ==
  IF dropped THEN Handlers \cup {None} ELSE {slots["error"]}

\* The thread reads the slot and, if it holds a handler, enters it; with no
\* handler the closure is over.
dispatch_error(i) ==
  /\ threads[i].pc = "failed"
  /\ \E v \in on_error_fn_read :
       LET n == error_invocations(v) IN
         /\ threads' = [threads EXCEPT ![i].pc = IF n > 0 THEN "calling" ELSE "done",
                                       ![i].errs = @ + n,
                                       ![i].cb = IF n > 0 THEN v ELSE @]
         /\ calls' = [calls EXCEPT !["error"] = @ + n]
  /\ UNCHANGED <<state, chan, config, slots, wire, last, dropped>>

\* (func)(error.description()) returns; the closure is over.
handler_returns(i) ==
  /\ threads[i].pc = "calling"
  /\ threads' = [threads EXCEPT ![i].pc = "done"]
  /\ UNCHANGED <<state, chan, config, slots, calls, wire, last, dropped>>

\* ---- specification ------------------------------------------------------
Caller ==
  \/ connect
  \/ disconnect
  \/ \E m \in Msgs : send(m)
  \/ \E h \in Handlers : on_connect(h)
  \/ \E h \in Handlers : on_disconnect(h)
  \/ \E h \in Handlers : on_message(h)
  \/ \E h \in Handlers : on_error(h)
  \/ drop_handle

Transport ==
  \/ \E i \in DOMAIN threads : ws_open(i)
  \/ \E i \in DOMAIN threads : WsClient_on_message(i)
  \/ \E i \in DOMAIN threads : ws_closed(i)
  \/ \E i \in DOMAIN threads : ws_failed(i)

Closure ==
  \/ \E i \in DOMAIN threads : dispatch_error(i)
  \/ \E i \in DOMAIN threads : handler_returns(i)

Next == Caller \/ Transport \/ Closure

Spec == Init /\ [][Next]_vars

\* The closure's own code runs to completion once ws::connect has returned
\* (a handler it calls returns); the caller and the transport are not obliged
\* to do anything.
FairSpec == Spec /\ WF_vars(Closure)

TypeOK ==
  /\ state \in EasyWsConnectionState
  /\ chan \in Seq(EasyWsCommand)
  /\ config \in Builders
  /\ slots \in [Kinds -> Handlers \cup {None}]
  /\ \A i \in DOMAIN threads :
       threads[i].pc \in {"connecting", "open", "failed", "calling", "done"}
  /\ calls \in [Kinds -> Nat]
  /\ last.res \in EasyWsResult
  /\ dropped \in BOOLEAN

\* ---- vocabulary of the properties ---------------------------------------
\* The handle's state field is assigned only in new(); the connection is
\* past Disconnected, in the lifecycle sense, while a thread spawned by
\* connect() is still running, and Connected while one has its socket open.
PastDisconnected == state # "Disconnected" \/ AnyLive
IsConnected      == state = "Connected" \/ OpenSet # {}

\* what the transport would be asked through WsClient.out
WireSend(m) == [op |-> "send", text |-> m]
WireClose   == [op |-> "close", text |-> ""]

\* the steps in which the caller's connect(), disconnect() or send() returns
ConnectStep ==
  last'.op = "connect" /\ (last' # last \/ Len(threads') > Len(threads))
DisconnectStep ==
  last'.op = "disconnect" /\ (last' # last \/ Len(chan') > Len(chan))
SendStep ==
  last'.op = "send" /\ (last' # last \/ Len(chan') > Len(chan))

Opened    == {i \in DOMAIN threads : threads[i].opened}
Completed == {i \in Opened : threads[i].pc = "done"}
FailedOpenDone == {i \in DOMAIN threads : threads[i].pc = "done" /\ ~threads[i].opened}
InHandler == {i \in DOMAIN threads : threads[i].pc = "calling"}

\* ---- C1 ------------------------------------------------------------------
\* C1: a connect() made while the connection is not Disconnected returns
\* AlreadyConnected and spawns no thread; a connect() made while
\* Disconnected returns Ok and spawns exactly one.
C1_ConnectOnlyWhenDisconnected ==
  [][ConnectStep =>
       IF PastDisconnected
         THEN last'.res = "AlreadyConnected" /\ threads' = threads
         ELSE last'.res = "Ok" /\ Len(threads') = Len(threads) + 1]_vars

\* ---- C2 ------------------------------------------------------------------
\* C2: at most one background network-loop thread of the handle is alive.
C2_AtMostOneLoop == Cardinality(LiveSet) <= 1

\* ---- C3 ------------------------------------------------------------------
\* C3: disconnect() called while Disconnected returns NotConnected and puts
\* no Disconnect into the channel (so it never returns Ok before a connect()
\* has moved the connection past Disconnected).
C3_DisconnectNeedsConnection ==
  [][(DisconnectStep /\ ~PastDisconnected) =>
       (last'.res = "NotConnected" /\ chan' = chan)]_vars

\* ---- C4 ------------------------------------------------------------------
\* C4: send(text) called while not Connected returns NotConnected, enqueues
\* no Send, hands nothing to the transport and spawns no thread.
C4_SendNeedsConnected ==
  [][(SendStep /\ ~IsConnected) =>
       (/\ last'.res = "NotConnected"
        /\ chan' = chan
        /\ wire' = wire
        /\ threads' = threads)]_vars

\* ---- C6 ------------------------------------------------------------------
\* C6: every command submitted to the channel is eventually taken from it by
\* the network loop: once a send() or disconnect() made after connect() has
\* returned Ok and the loop is connected, the channel drains (or the loop
\* has gone).
C6_CommandsConsumed ==
  (/\ chan # << >>
   /\ OpenSet # {}
   /\ last.op \in {"send", "disconnect"}
   /\ last.res = "Ok")
    ~> (chan = << >> \/ OpenSet = {})

\* ---- C7 ------------------------------------------------------------------
\* C7: a Send accepted before a Disconnect reaches the transport before the
\* close does, as long as the transport stays open.
SendThenDisconnectQueued(m) ==
  \E i, j \in DOMAIN chan : i < j /\ chan[i] = Send(m) /\ chan[j] = Disconnect

SendBeforeCloseOnWire(m) ==
  \E i, j \in DOMAIN wire : i < j /\ wire[i] = WireSend(m) /\ wire[j] = WireClose

C7_SendBeforeClose ==
  \A m \in Msgs :
    (SendThenDisconnectQueued(m) /\ OpenSet # {})
      ~> (SendBeforeCloseOnWire(m) \/ OpenSet = {})

\* ---- C8 ------------------------------------------------------------------
\* C8: once a loop has reached Connected, exactly one on_connect dispatch
\* has been made for that connect attempt.
C8_OneOnConnectPerOpen ==
  calls["connect"] = Cardinality(Opened)

\* ---- C9 ------------------------------------------------------------------
\* C9: every completed connect cycle has had exactly one on_disconnect
\* dispatch.
C9_OneOnDisconnectPerCycle ==
  calls["disconnect"] = Cardinality(Completed)

\* ---- C10 -----------------------------------------------------------------
\* C10: when the transport fails to open, the thread goes on to terminate
\* (no thread stays for ever where ws::connect returned Err or inside the
\* handler, and from there it can only end); it calls a registered on_error
\* exactly once (the handle being there), leaves state Disconnected and
\* on_connect uncalled; afterwards that attempt has seen at most that one
\* on_error call.
FailedOpenEnds(i) ==
  /\ threads[i].pc = "failed"
  /\ ~threads[i].opened
  /\ threads'[i].pc # "failed"

C10_FailedOpen ==
  /\ [][\A i \in DOMAIN threads :
          (FailedOpenEnds(i) /\ ~dropped) =>
            /\ state' = "Disconnected"
            /\ calls'["connect"] = 0
            /\ threads'[i].errs = (IF slots["error"] # None THEN 1 ELSE 0)
            /\ calls'["error"] = calls["error"] + threads'[i].errs]_vars
  /\ [](\A i \in DOMAIN threads :
          /\ (threads[i].pc \notin {"calling", "done"} => threads[i].errs = 0)
          /\ (i \in FailedOpenDone =>
                state = "Disconnected" /\ calls["connect"] = 0 /\ threads[i].errs <= 1))
  /\ []<>(\A i \in DOMAIN threads : threads[i].pc \notin {"failed", "calling"})

\* a failed open has ended with the registered on_error called once
C10_Witness ==
  \E i \in FailedOpenDone :
    /\ threads[i].errs = 1
    /\ slots["error"] # None
    /\ state = "Disconnected"
    /\ calls["connect"] = 0

\* ---- C11 -----------------------------------------------------------------
\* C11: no two user callbacks of the handle are executing at the same time.
C11_OneCallbackAtATime == Cardinality(InHandler) <= 1

\* ---- C12 -----------------------------------------------------------------
\* C12: after disconnect() has returned Ok on a connection whose socket is
\* open, the network-loop threads eventually end and the state is
\* Disconnected.
C12_DisconnectEndsLoop ==
  (last.op = "disconnect" /\ last.res = "Ok" /\ OpenSet # {})
    ~> (~AnyLive /\ state = "Disconnected")

\* ---- C13 -----------------------------------------------------------------
\* C13: connect(), disconnect() and send() never wait: whatever the threads
\* are doing, each call can be made (up to the numbers of calls explored) and
\* is over in one step of the caller, which only appends the spawned thread
\* or the command and touches no running thread.
CallsReady ==
  /\ (~dropped /\ Len(threads) < MaxThreads) => ENABLED connect
  /\ (~dropped /\ Len(chan) < MaxChan) =>
        /\ ENABLED disconnect
        /\ \A m \in Msgs : ENABLED send(m)

C13_CallsDoNotBlock ==
  /\ [](CallsReady)
  /\ [][/\ ConnectStep =>
            /\ SubSeq(threads', 1, Len(threads)) = threads
            /\ Len(threads') = Len(threads) + 1
            /\ chan' = chan
        /\ (DisconnectStep \/ SendStep) =>
            /\ threads' = threads
            /\ SubSeq(chan', 1, Len(chan)) = chan
            /\ Len(chan') = Len(chan) + 1]_vars

\* a command has gone in behind another one that nobody has taken, with one
\* thread blocked in its event loop and another one over
C13_Witness ==
  /\ OpenSet # {}
  /\ \E i \in DOMAIN threads : threads[i].pc = "done"
  /\ Len(chan) = 2
  /\ last.op \in {"send", "disconnect"}
  /\ last.res = "Ok"

\* ---- C16 -----------------------------------------------------------------
\* C16: when the handle is dropped while a network-loop thread is running,
\* the thread eventually ends.
C16_NoThreadOutlivesHandle ==
  (dropped /\ AnyLive) ~> ~AnyLive

\* ---- C14 -----------------------------------------------------------------
\* C14: a registration can be made in every state of the connection; it
\* writes the one slot and nothing else (state, channel, configuration, the
\* other slots, the threads); and a dispatch that starts once a handler is
\* in the slot calls that handler.
RegistrationStep(k, h) ==
  /\ slots'[k] = h
  /\ \A j \in Kinds \ {k} : slots'[j] = slots[j]
  /\ UNCHANGED <<state, chan, config, threads, calls, wire, last, dropped>>

DispatchStarts(i) ==
  threads[i].pc = "failed" /\ threads'[i].pc # "failed"

C15_SlotAccessExclusive ==
  InHandler # {} => \A h \in Handlers : ~ENABLED on_error(h)

\* ---- C17 -----------------------------------------------------------------
\* C17: an error dispatched while no on_error handler is registered is
\* dropped: no callback runs, nothing is returned to the caller, the thread
\* just ends; and state and channel are left as a dispatch with a handler
\* leaves them, that is, unchanged.
C17_UnregisteredDropped ==
  [][\A i \in DOMAIN threads :
       (DispatchStarts(i) /\ ~dropped) =>
         /\ UNCHANGED <<state, chan>>
         /\ slots["error"] = None =>
               /\ threads'[i].pc = "done"
               /\ threads'[i].errs = 0
               /\ threads'[i].cb = None
               /\ UNCHANGED <<calls, last, slots, wire>>]_vars

\* a thread whose ws::connect failed has ended without a callback, no
\* on_error handler having been registered
C17_Witness ==
  /\ ~dropped
  /\ slots["error"] = None
  /\ calls["error"] = 0
  /\ \E i \in FailedOpenDone : threads[i].errs = 0

C19_StateNeverLeavesDisconnected == state = "Disconnected"

\* connections have opened and ended, a handler is registered, commands are
\* queued, a thread is still running: and the field still says Disconnected
C19_Witness ==
  /\ state = "Disconnected"
  /\ Completed # {}
  /\ OpenSet # {}
  /\ slots["error"] # None
  /\ \E k \in DOMAIN chan : chan[k] = Disconnect
  /\ \E k \in DOMAIN chan : chan[k] \in {Send(m) : m \in Msgs}

\* ---- C20 -----------------------------------------------------------------
\* C20: every send() and disconnect() returns Ok; EasyWsError::Unknown is
\* never returned by any call.
C20_SubmitAlwaysOk ==
  /\ last.res \notin EasyWsError
  /\ last.op \in {"send", "disconnect"} => last.res = "Ok"

\* a disconnect() has returned Ok behind an earlier command, with every
\* thread of the handle already over
C20_Witness ==
  /\ ~dropped
  /\ last = Call("disconnect", "Ok")
  /\ Len(chan) >= 2
  /\ threads # << >>
  /\ ~AnyLive
====
